---------------------------- MODULE Spec2Model ----------------------------
(***************************************************************************)
(* Frieren Downloader: the App view (src/src/App.tsx).                     *)
(*                                                                         *)
(* The state is the component's useState cells, the position of every      *)
(* running async handler (handleDownload, handleFetchVideoInfo, the        *)
(* directory picker), the listeners the view has registered with the Event *)
(* Relay, and the state of the download-log useEffect.  The Command Bridge *)
(* and the Event Relay are collaborators: a pending command may resolve or *)
(* reject at any time, and the relay may emit a download-log or            *)
(* download-progress event at any time.                                    *)
(*                                                                         *)
(* A JavaScript handler runs to its next await without interleaving, so    *)
(* one action is one such run: from the click to the first await, and from *)
(* the settlement of an awaited promise to the next await or the return.   *)
(* listen() resolves once the listener is registered; the function it      *)
(* resolves to removes the listener when called.  React keeps the state of *)
(* the component across a teardown and re-run of its effects.              *)
(*                                                                         *)
(* Next is the whole view.  Its state space is the product of the form,    *)
(* the handlers and the event history, so the properties are checked under *)
(* the specifications SpecDownload, SpecCommands, SpecForm and SpecQuality *)
(* (FairSpecDownload and FairSpecCommands for liveness), each the          *)
(* sub-disjunction of Next whose actions read or write the variables the   *)
(* property is about; the actions left out of a view never enable a step   *)
(* of the view (a teardown only disables the user's actions).              *)
(*                                                                         *)
(* The setup script (src/unnamed/part_000) is a separate sequential        *)
(* program with its own variable, script, and its own specification,       *)
(* SpecSetup (FairSpecSetup for liveness).                                 *)
(*                                                                         *)
(* The TitleBar (src/src/components/TitleBar.tsx) is a second component    *)
(* with its own variable, titleBar, and its own specification,             *)
(* SpecTitleBar.  The window answers an isMaximized() query at some moment *)
(* between the call and the resolution of its promise, and the promises of *)
(* separate calls resolve in any order.                                    *)
(***************************************************************************)
EXTENDS Integers, Sequences, FiniteSets, TLC

\* ------------------------------------------------------------------ bounds
MaxHandlers == 2     \* invocations of one handler that may run at a time
MaxLogLen == 2       \* download-log events delivered between two clears
MaxTornPending == 1  \* torn-down effects whose listen() is still pending

\* --------------------------------------------------------------- constants
InitialProgress == 0   \* useState(0), and setProgress(0) on a new download
FullProgress == 100    \* setProgress(100) on success

\* ------------------------------------------------------------ value domains
Urls == {"", "u1", "u2"}
Formats == {"video+audio", "audio", "video"}
Null == "null"
Directories == {"D:/media"}
ProgressValues == {40, 100, 120}

Q137 == [id |-> "137", label |-> "1080p", format_type |-> "video"]
Q140 == [id |-> "140", label |-> "128kbps", format_type |-> "audio"]
\* what get_video_info may return
FetchResults == {<< >>, <<Q137, Q140>>, <<Q140>>}

\* BackendLogMessage payloads of the download-log stream
LogPayloads == [message_type : {"stdout", "stderr"}, message : {"line"}]
\* payloads of the download-progress stream
ProgressPayloads == [progress : ProgressValues, status : {"downloading"}]

\* error values a rejected command carries
Errors == {[kind |-> "string", text |-> "tool not found"],
           [kind |-> "Error", text |-> "spawn failed"]}
NoError == [kind |-> "string", text |-> ""]

NoToast == [kind |-> "none", text |-> << >>]
NoFetch == [url |-> "", fetched |-> FALSE, list |-> << >>]
NoRequest == [url |-> "", format |-> "", quality |-> "", downloadPath |-> Null]
NotSettled == [outcome |-> "none", error |-> NoError]

\* the setup script (src/unnamed/part_000) before it is run: step is its
\* position, tool the index of the tool being handled, present the commands
\* the session resolves; absentAtCheck, attempted, restarted and exit record
\* what the run has done (exit holds the code of an `exit <code>`)
ScriptNotRun ==
    [step |-> "idle", tool |-> 0, present |-> {}, startedWith |-> {},
     absentAtCheck |-> {}, attempted |-> {}, restarted |-> FALSE,
     exit |-> << >>]

\* the TitleBar before its effect has run: useState(false), a window that
\* is not maximized, nothing asked of the window yet.  checksAsked /
\* togglesAsked count the isMaximized() queries of checkMaximized /
\* toggleMaximize that the window has not read for yet, checksRead /
\* togglesRead those it has answered (by the value read) and whose promise
\* has not resolved yet; commands counts the maximize() / unmaximize() calls
\* the window has not carried out yet
TitleBarNotMounted ==
    [isMaximized |-> FALSE, window |-> FALSE, listen |-> "none",
     checksAsked |-> 0, checksRead |-> [v \in BOOLEAN |-> 0],
     togglesAsked |-> 0, togglesRead |-> [v \in BOOLEAN |-> 0],
     commands |-> [v \in BOOLEAN |-> 0]]

VARIABLES
    url, format, quality, downloadPath,     \* form inputs
    isDownloading, isFetchingInfo,          \* in-flight flags
    progress, availableQualities, logs,     \* displayed data
    toast,                                  \* the last notification raised
    logEffect,                              \* the download-log effect
    tornPending,                            \* torn-down effects, listen pending
    logListeners,                           \* download-log listeners registered
    progressListeners,                      \* download-progress listeners
    downloads,                              \* handleDownload invocations
    fetches,                                \* handleFetchVideoInfo invocations
    pickerOpen,                             \* directory picker awaiting open()
    delivered,                              \* history: log payloads handed to
                                            \*   the listener since the last
                                            \*   accepted download submission
    lastSeen,                               \* history: the last two progress
                                            \*   values handed to the listener
                                            \*   since that submission, latest
                                            \*   first
    lastSettled,                            \* history: how the last
                                            \*   download_media call settled
    lastFetch,                              \* history: the last fetch that
                                            \*   returned, and its url
    submitted,                              \* history: the form at the last
                                            \*   accepted download submission
    callBalance,                            \* history: per command, accepted
                                            \*   submissions minus calls issued
    fetchSettled,                           \* history: how the last
                                            \*   get_video_info call settled
    script,                                 \* the setup script's run
    titleBar                                \* the TitleBar component and the
                                            \*   window it controls

vars == <<url, format, quality, downloadPath, isDownloading, isFetchingInfo,
          progress, availableQualities, logs, toast, logEffect, tornPending,
          logListeners, progressListeners, downloads, fetches, pickerOpen,
          delivered, lastSeen, lastSettled, lastFetch, submitted,
          callBalance, fetchSettled, script, titleBar>>

formVars == <<url, format, quality, downloadPath>>
effectVars == <<logEffect, tornPending, logListeners>>
downloadHist == <<lastSeen, lastSettled>>
callHist == <<submitted, callBalance, fetchSettled>>
setupVars == <<script>>
chromeVars == <<titleBar>>

\* ------------------------------------------------------------- pure helpers

\* `${error}`: a string is itself, an Error object prints "Error: <message>"
Stringify(e) == IF e.kind = "string" THEN <<e.text>> ELSE <<"Error: ", e.text>>

\* `!url`
\* (faulty variant: the check left out)
UrlMissingNever(u) == FALSE
UrlMissing(u) == u = ""

\* { type: event.payload.message_type, message: event.payload.message }
ToLogMessage(p) == [type |-> p.message_type, message |-> p.message]

RECURSIVE Repeat(_, _)
Repeat(x, n) == IF n = 0 THEN << >> ELSE <<x>> \o Repeat(x, n - 1)

\* <SelectContent>: the fetched options when there are any, else the two
\* static entries
FallbackOptions ==
    <<[value |-> "best", label |-> "Best Available"],
      [value |-> "worst", label |-> "Lowest Available"]>>

FetchedOptions(list) ==
    [i \in 1..Len(list) |-> [value |-> list[i].id, label |-> list[i].label]]

\* (faulty variant: the static entries always rendered after the fetched)
QualityOptionsMerged(list) == FetchedOptions(list) \o FallbackOptions
QualityOptionsShown(list) ==
    IF Len(list) > 0 THEN FetchedOptions(list) ELSE FallbackOptions

SelectableQualities ==
    {QualityOptionsShown(availableQualities)[i].value :
        i \in 1..Len(QualityOptionsShown(availableQualities))}

\* setLogs((prev) => [...prev, {...}])
\* (faulty variant: setLogs([...logs, x]) with the logs of the mount render)
AppendLogStale(prev, p) == <<ToLogMessage(p)>>
\* (faulty variant: only stdout lines are kept)
AppendLogStdoutOnly(prev, p) ==
    IF p.message_type = "stdout" THEN Append(prev, ToLogMessage(p)) ELSE prev
AppendLog(prev, p) == Append(prev, ToLogMessage(p))

\* one emission reaches every registered download-log listener of the view
RECURSIVE DeliverLog(_, _, _)
DeliverLog(prev, p, k) ==
    IF k = 0 THEN prev ELSE DeliverLog(AppendLog(prev, p), p, k - 1)

ErrorToast(parts) == [kind |-> "error", text |-> parts]
SuccessToast(parts) == [kind |-> "success", text |-> parts]

\* ------------------------------------------------------ handler bookkeeping
HandlerIds == 1..MaxHandlers

IdleDownload == [pc |-> "none", req |-> NoRequest]
IdleFetch == [pc |-> "none", url |-> ""]

FreeDownloads == {d \in HandlerIds : downloads[d].pc = "none"}
FreeFetches == {f \in HandlerIds : fetches[f].pc = "none"}
NextDownload == CHOOSE d \in FreeDownloads : \A e \in FreeDownloads : d <= e
NextFetch == CHOOSE f \in FreeFetches : \A e \in FreeFetches : f <= e

RunningDownloads == HandlerIds \ FreeDownloads
PendingDownloadCalls == {d \in HandlerIds : downloads[d].pc = "invoked"}
PendingFetchCalls == {f \in HandlerIds : fetches[f].pc = "invoked"}
Mounted == logEffect # "none"
MountedViews == IF Mounted THEN 1 ELSE 0

\* ------------------------------------------------------------------- Init
Init ==
    /\ url = ""
    /\ format = "video+audio"
    /\ quality = "best"
    /\ downloadPath = Null
    /\ isDownloading = FALSE
    /\ isFetchingInfo = FALSE
    /\ progress = InitialProgress
    /\ availableQualities = << >>
    /\ logs = << >>
    /\ toast = NoToast
    /\ logEffect = "none"
    /\ tornPending = 0
    /\ logListeners = 0
    /\ progressListeners = 0
    /\ downloads = [d \in HandlerIds |-> IdleDownload]
    /\ fetches = [f \in HandlerIds |-> IdleFetch]
    /\ pickerOpen = FALSE
    /\ delivered = << >>
    /\ lastSeen = << >>
    /\ lastSettled = NotSettled
    /\ lastFetch = NoFetch
    /\ submitted = NoRequest
    /\ callBalance = [download |-> 0, fetch |-> 0]
    /\ fetchSettled = "none"
    /\ script = ScriptNotRun
    /\ titleBar = TitleBarNotMounted

\* ------------------------------------------- the download-log useEffect
\* effect body: listen("download-log", ...) is called, its promise pending
Mount ==
    /\ ~Mounted
    /\ logEffect' = "pending"
    /\ UNCHANGED <<formVars, isDownloading, isFetchingInfo, progress,
                   availableQualities, logs, toast, tornPending, logListeners,
                   progressListeners, downloads, fetches, pickerOpen,
                   delivered, downloadHist, lastFetch>>
    /\ UNCHANGED <<callHist, setupVars,
                   chromeVars>>

\* the listen("download-log") promise of the live effect resolves
LogListenResolved ==
    /\ logEffect = "pending"
    /\ logEffect' = "registered"
    /\ logListeners' = logListeners + 1
    /\ UNCHANGED <<formVars, isDownloading, isFetchingInfo, progress,
                   availableQualities, logs, toast, tornPending,
                   progressListeners, downloads, fetches, pickerOpen,
                   delivered, downloadHist, lastFetch>>
    /\ UNCHANGED <<callHist, setupVars,
                   chromeVars>>

\* cleanup: unlisten.then((f) => f()) -- a registered listener is removed at
\* once; for a pending registration the callback waits for it
Teardown ==
    /\ Mounted
    /\ logEffect' = "none"
    /\ IF logEffect = "registered"
       THEN /\ logListeners' = logListeners - 1
            /\ UNCHANGED tornPending
       ELSE /\ tornPending < MaxTornPending
            /\ tornPending' = tornPending + 1
            /\ UNCHANGED logListeners
    /\ UNCHANGED <<formVars, isDownloading, isFetchingInfo, progress,
                   availableQualities, logs, toast, progressListeners,
                   downloads, fetches, pickerOpen, delivered, downloadHist,
                   lastFetch>>
    /\ UNCHANGED <<callHist, setupVars,
                   chromeVars>>

\* listeners left once the registration of a torn-down effect completes: it
\* is registered, and the waiting callback (f) => f() removes it
\* (faulty variant: a cleanup that only releases what is already registered)
ListenersAfterTornLeaked(n) == n + 1
ListenersAfterTornResolved(n) == n

TornListenResolved ==
    /\ tornPending > 0
    /\ tornPending' = tornPending - 1
    /\ logListeners' = ListenersAfterTornResolved(logListeners)
    /\ UNCHANGED <<formVars, isDownloading, isFetchingInfo, progress,
                   availableQualities, logs, toast, logEffect,
                   progressListeners, downloads, fetches, pickerOpen,
                   delivered, downloadHist, lastFetch>>
    /\ UNCHANGED <<callHist, setupVars,
                   chromeVars>>

\* the relay emits one download-log event
LogEvent(p) ==
    /\ logListeners > 0
    /\ Len(logs) < MaxLogLen
    /\ Len(delivered) < MaxLogLen
    /\ logs' = DeliverLog(logs, p, logListeners)
    /\ delivered' = delivered \o Repeat(p, logListeners)
    /\ UNCHANGED <<formVars, isDownloading, isFetchingInfo, progress,
                   availableQualities, toast, effectVars, progressListeners,
                   downloads, fetches, pickerOpen, downloadHist, lastFetch>>
    /\ UNCHANGED <<callHist, setupVars,
                   chromeVars>>

\* ------------------------------------------------------- handleDownload
\* disabled={isDownloading}
\* (faulty variant: the button never disabled)
DownloadNeverDisabled == FALSE
DownloadDisabled == isDownloading

\* the request the handler's closure holds: the form values of the render
\* the click happened in
CapturedRequest ==
    [url |-> url, format |-> format, quality |-> quality,
     downloadPath |-> downloadPath]

\* setLogs([]) on a new download
\* (faulty variant: the clear left out)
LogsKept(prev) == prev
LogsOnNewDownload(prev) == << >>

\* setIsDownloading(true); setProgress(0); setLogs([]); then
\* await listen("download-progress", ...)
StartDownload(d) ==
    /\ isDownloading' = TRUE
    /\ progress' = InitialProgress
    /\ logs' = LogsOnNewDownload(logs)
    /\ downloads' = [downloads EXCEPT
                       ![d] = [pc |-> "listening", req |-> CapturedRequest]]

\* click on the download button
SubmitDownload ==
    /\ Mounted
    /\ ~DownloadDisabled
    /\ FreeDownloads # {}
    /\ IF UrlMissing(url)
       THEN /\ toast' = ErrorToast(<<"Please enter a YouTube URL">>)
            /\ UNCHANGED <<isDownloading, progress, logs, downloads, delivered,
                           lastSeen, submitted, callBalance>>
       ELSE /\ StartDownload(NextDownload)
            /\ delivered' = << >>
            /\ lastSeen' = << >>
            /\ submitted' = [url |-> url, format |-> format,
                             quality |-> quality, downloadPath |-> downloadPath]
            /\ callBalance' = [callBalance EXCEPT !.download = @ + 1]
            /\ UNCHANGED toast
    /\ UNCHANGED <<formVars, isFetchingInfo, availableQualities, effectVars,
                   progressListeners, fetches, pickerOpen, lastSettled,
                   lastFetch, fetchSettled, setupVars,
                   chromeVars>>

\* the arguments of invoke("download_media", {url, format, quality,
\* downloadPath}): the variables of the closure the handler was created in
\* (faulty variant: the form as it is when the call is made)
RequestFromCurrentForm(captured) == CapturedRequest
RequestSent(captured) == captured

\* 1 when the handler whose record is r has just called invoke, else 0
CallIssued(r) == IF r.pc = "invoked" THEN 1 ELSE 0

\* await listen(...) resolves: the listener is registered, and
\* invoke("download_media", request) is issued
ProgressListenResolved(d) ==
    /\ downloads[d].pc = "listening"
    /\ downloads' = [downloads EXCEPT ![d].pc = "invoked",
                                      ![d].req = RequestSent(downloads[d].req)]
    /\ progressListeners' = progressListeners + 1
    /\ callBalance' = [callBalance EXCEPT
                         !.download = @ - CallIssued(downloads'[d])]
    /\ UNCHANGED <<submitted, fetchSettled, setupVars,
                   chromeVars>>
    /\ UNCHANGED <<formVars, isDownloading, isFetchingInfo, progress,
                   availableQualities, logs, toast, effectVars, fetches,
                   pickerOpen, delivered, downloadHist, lastFetch>>

\* setProgress(event.payload.progress)
\* (faulty variant: progress never moves backwards)
ProgressMonotonic(prev, value) == IF value > prev THEN value ELSE prev
ProgressOnEvent(prev, value) == value

\* the history after one more event: its value, then the one before it
SeenAfter(seen, value) ==
    <<value>> \o (IF seen = << >> THEN << >> ELSE <<seen[1]>>)

\* the relay emits one download-progress event
ProgressEvent(p) ==
    /\ progressListeners > 0
    /\ progress' = ProgressOnEvent(progress, p.progress)
    /\ lastSeen' = SeenAfter(lastSeen, p.progress)
    /\ UNCHANGED <<formVars, isDownloading, isFetchingInfo, availableQualities,
                   logs, toast, effectVars, progressListeners, downloads,
                   fetches, pickerOpen, delivered, lastSettled, lastFetch>>
    /\ UNCHANGED <<callHist, setupVars,
                   chromeVars>>

\* try { await invoke(...); toast.success(...); setProgress(100) }
\* (faulty variant: setProgress(100) left out)
ProgressKept(p) == p
ProgressAfterSuccess(p) == FullProgress

\* catch: toast.error(`Failed to start download: ${error}`); progress is
\* not touched
\* (faulty variant: setProgress(100) moved to finally)
ProgressForced(p) == FullProgress
ProgressAfterFailure(p) == p

DownloadFailedToast(e) ==
    ErrorToast(<<"Failed to start download: ">> \o Stringify(e))

\* finally { setIsDownloading(false); unlisten() }
\* (faulty variants: the reset, or unlisten(), done in try instead of finally)
IsDownloadingAfterSuccessOnly(cur, outcome) ==
    IF outcome = "ok" THEN FALSE ELSE cur
IsDownloadingAfterSettle(cur, outcome) == FALSE

ListenersAfterSuccessOnly(n, outcome) == IF outcome = "ok" THEN n - 1 ELSE n
\* (faulty variant: unlisten() never called)
ListenersKept(n, outcome) == n
ListenersAfterSettle(n, outcome) == n - 1

\* the handler after its catch block: it returns, nothing is called again
\* (faulty variant: the catch block calls invoke again)
RetryDownload(r) == r
AfterDownloadRejected(r) == IdleDownload

\* invoke("download_media") resolves
DownloadResolved(d) ==
    /\ downloads[d].pc = "invoked"
    /\ toast' = SuccessToast(<<"Download started successfully!">>)
    /\ progress' = ProgressAfterSuccess(progress)
    /\ isDownloading' = IsDownloadingAfterSettle(isDownloading, "ok")
    /\ progressListeners' = ListenersAfterSettle(progressListeners, "ok")
    /\ downloads' = [downloads EXCEPT ![d] = IdleDownload]
    /\ lastSettled' = [outcome |-> "ok", error |-> NoError]
    /\ UNCHANGED <<formVars, isFetchingInfo, availableQualities, logs,
                   effectVars, fetches, pickerOpen, delivered, lastSeen,
                   lastFetch, callHist, setupVars,
                   chromeVars>>

\* invoke("download_media") rejects with e
DownloadRejected(d, e) ==
    /\ downloads[d].pc = "invoked"
    /\ toast' = DownloadFailedToast(e)
    /\ progress' = ProgressAfterFailure(progress)
    /\ isDownloading' = IsDownloadingAfterSettle(isDownloading, "err")
    /\ progressListeners' = ListenersAfterSettle(progressListeners, "err")
    /\ downloads' = [downloads EXCEPT ![d] = AfterDownloadRejected(downloads[d])]
    /\ lastSettled' = [outcome |-> "err", error |-> e]
    /\ callBalance' = [callBalance EXCEPT
                         !.download = @ - CallIssued(downloads'[d])]
    /\ UNCHANGED <<formVars, isFetchingInfo, availableQualities, logs,
                   effectVars, fetches, pickerOpen, delivered, lastSeen,
                   lastFetch, submitted, fetchSettled, setupVars,
                   chromeVars>>

\* -------------------------------------------------- handleFetchVideoInfo
\* disabled={isFetchingInfo}
FetchDisabled == isFetchingInfo

\* click on the fetch-info button: invoke("get_video_info", { url })
SubmitFetch ==
    /\ Mounted
    /\ ~FetchDisabled
    /\ FreeFetches # {}
    /\ IF UrlMissing(url)
       THEN /\ toast' = ErrorToast(<<"Please enter a YouTube URL">>)
            /\ UNCHANGED <<isFetchingInfo, fetches, callBalance>>
       ELSE /\ isFetchingInfo' = TRUE
            /\ fetches' = [fetches EXCEPT
                             ![NextFetch] = [pc |-> "invoked", url |-> url]]
            /\ callBalance' = [callBalance EXCEPT
                                 !.fetch = @ + 1 - CallIssued(fetches'[NextFetch])]
            /\ UNCHANGED toast
    /\ UNCHANGED <<formVars, isDownloading, progress, availableQualities, logs,
                   effectVars, progressListeners, downloads, pickerOpen,
                   delivered, downloadHist, lastFetch, submitted, fetchSettled,
                   setupVars,
                   chromeVars>>

\* setAvailableQualities(qualities)
\* (faulty variant: the new options appended to the old)
QualitiesAppended(prev, list) == prev \o list
QualitiesAfterFetch(prev, list) == list

\* finally { setIsFetchingInfo(false) }
\* (faulty variant: the reset done in try instead of finally)
IsFetchingAfterSuccessOnly(cur, outcome) == IF outcome = "ok" THEN FALSE ELSE cur
IsFetchingAfterSettle(cur, outcome) == FALSE

\* the handler after its catch block: it returns, nothing is called again
\* (faulty variant: the catch block calls invoke again)
RetryFetch(r) == r
AfterFetchRejected(r) == IdleFetch

\* invoke("get_video_info") resolves with list
FetchResolved(f, list) ==
    /\ fetches[f].pc = "invoked"
    /\ availableQualities' = QualitiesAfterFetch(availableQualities, list)
    /\ toast' = SuccessToast(<<"Video info fetched successfully!">>)
    /\ isFetchingInfo' = IsFetchingAfterSettle(isFetchingInfo, "ok")
    /\ fetches' = [fetches EXCEPT ![f] = IdleFetch]
    /\ lastFetch' = [url |-> fetches[f].url, fetched |-> TRUE, list |-> list]
    /\ fetchSettled' = "ok"
    /\ UNCHANGED <<formVars, isDownloading, progress, logs, effectVars,
                   progressListeners, downloads, pickerOpen, delivered,
                   downloadHist, submitted, callBalance, setupVars,
                   chromeVars>>

\* invoke("get_video_info") rejects with e
FetchRejected(f, e) ==
    /\ fetches[f].pc = "invoked"
    /\ toast' = ErrorToast(<<"Failed to fetch video info: ">> \o Stringify(e))
    /\ isFetchingInfo' = IsFetchingAfterSettle(isFetchingInfo, "err")
    /\ fetches' = [fetches EXCEPT ![f] = AfterFetchRejected(fetches[f])]
    /\ fetchSettled' = "err"
    /\ callBalance' = [callBalance EXCEPT !.fetch = @ - CallIssued(fetches'[f])]
    /\ UNCHANGED <<formVars, isDownloading, progress, availableQualities, logs,
                   effectVars, progressListeners, downloads, pickerOpen,
                   delivered, downloadHist, lastFetch, submitted, setupVars,
                   chromeVars>>

\* ------------------------------------------------------------ form inputs
nonFormVars == <<isDownloading, isFetchingInfo, progress, availableQualities,
                 logs, toast, effectVars, progressListeners, downloads,
                 fetches, delivered, downloadHist, lastFetch>>

\* onChange={(e) => setUrl(e.target.value)}
SetUrl(u) ==
    /\ Mounted
    /\ u # url
    /\ url' = u
    /\ UNCHANGED <<format, quality, downloadPath, pickerOpen, nonFormVars>>
    /\ UNCHANGED <<callHist, setupVars,
                   chromeVars>>

\* <Select value={format} onValueChange={setFormat}>
SetFormat(f) ==
    /\ Mounted
    /\ f # format
    /\ format' = f
    /\ UNCHANGED <<url, quality, downloadPath, pickerOpen, nonFormVars>>
    /\ UNCHANGED <<callHist, setupVars,
                   chromeVars>>

\* <Select value={quality} onValueChange={setQuality}>: one of the items shown
SetQuality(q) ==
    /\ Mounted
    /\ q \in SelectableQualities
    /\ q # quality
    /\ quality' = q
    /\ UNCHANGED <<url, format, downloadPath, pickerOpen, nonFormVars>>
    /\ UNCHANGED <<callHist, setupVars,
                   chromeVars>>

\* directory button: await open({directory: true, multiple: false})
OpenPicker ==
    /\ Mounted
    /\ ~pickerOpen
    /\ pickerOpen' = TRUE
    /\ UNCHANGED <<formVars, nonFormVars>>
    /\ UNCHANGED <<callHist, setupVars,
                   chromeVars>>

\* open() settles: if (selected) setDownloadPath(selected)
PickerClosed(selected) ==
    /\ pickerOpen
    /\ pickerOpen' = FALSE
    /\ downloadPath' = IF selected # Null THEN selected ELSE downloadPath
    /\ UNCHANGED <<url, format, quality, nonFormVars>>
    /\ UNCHANGED <<callHist, setupVars,
                   chromeVars>>

\* ---------------------------------------------------------- specifications
QualityValues == {"best", "worst", Q137.id, Q140.id}

\* the whole view
Next ==
    \/ Mount
    \/ LogListenResolved
    \/ Teardown
    \/ TornListenResolved
    \/ \E p \in LogPayloads : LogEvent(p)
    \/ SubmitDownload
    \/ \E d \in HandlerIds : ProgressListenResolved(d)
    \/ \E p \in ProgressPayloads : ProgressEvent(p)
    \/ \E d \in HandlerIds : DownloadResolved(d)
    \/ \E d \in HandlerIds, e \in Errors : DownloadRejected(d, e)
    \/ SubmitFetch
    \/ \E f \in HandlerIds, list \in FetchResults : FetchResolved(f, list)
    \/ \E f \in HandlerIds, e \in Errors : FetchRejected(f, e)
    \/ \E u \in Urls : SetUrl(u)
    \/ \E f \in Formats : SetFormat(f)
    \/ \E q \in QualityValues : SetQuality(q)
    \/ OpenPicker
    \/ \E sel \in Directories \cup {Null} : PickerClosed(sel)

Spec == Init /\ [][Next]_vars

\* the download lifecycle and the two event streams: every action that reads
\* or writes isDownloading, progress, logs or a listener
NextDownloadView ==
    \/ Mount
    \/ LogListenResolved
    \/ Teardown
    \/ TornListenResolved
    \/ \E p \in LogPayloads : LogEvent(p)
    \/ \E u \in Urls : SetUrl(u)
    \/ SubmitDownload
    \/ \E d \in HandlerIds : ProgressListenResolved(d)
    \/ \E p \in ProgressPayloads : ProgressEvent(p)
    \/ \E d \in HandlerIds : DownloadResolved(d)
    \/ \E d \in HandlerIds, e \in Errors : DownloadRejected(d, e)

SpecDownload == Init /\ [][NextDownloadView]_vars

\* the bridge answers every command and every listener registration
FairDownload ==
    /\ WF_vars(LogListenResolved)
    /\ WF_vars(TornListenResolved)
    /\ WF_vars(\E d \in HandlerIds : ProgressListenResolved(d))
    /\ WF_vars(\E d \in HandlerIds :
                  DownloadResolved(d) \/ \E e \in Errors : DownloadRejected(d, e))

FairSpecDownload == SpecDownload /\ FairDownload

\* the two commands and what decides them: the url field, the in-flight
\* flags and the fetched quality list
NextCommandView ==
    \/ Mount
    \/ \E u \in Urls : SetUrl(u)
    \/ SubmitDownload
    \/ \E d \in HandlerIds : ProgressListenResolved(d)
    \/ \E d \in HandlerIds : DownloadResolved(d)
    \/ \E d \in HandlerIds, e \in Errors : DownloadRejected(d, e)
    \/ SubmitFetch
    \/ \E f \in HandlerIds, list \in FetchResults : FetchResolved(f, list)
    \/ \E f \in HandlerIds, e \in Errors : FetchRejected(f, e)

SpecCommands == Init /\ [][NextCommandView]_vars

\* ------------------------------------------------------------- properties
DownloadSettles(d) == downloads[d].pc = "invoked" /\ downloads'[d].pc # "invoked"
DownloadAccepted(d) == downloads[d].pc = "none" /\ downloads'[d].pc # "none"
UrlToast == [kind |-> "error", text |-> <<"Please enter a YouTube URL">>]
DownloadOkToast ==
    [kind |-> "success", text |-> <<"Download started successfully!">>]

\* C1: no handleDownload invocation passes the url check, and no
\* get_video_info or download_media call is pending, with an empty url.
C1_NoCommandWithEmptyUrl ==
    /\ \A d \in HandlerIds :
          downloads[d].pc \in {"listening", "invoked"} => downloads[d].req.url # ""
    /\ \A f \in HandlerIds : fetches[f].pc = "invoked" => fetches[f].url # ""

\* a submission with the empty url was refused and nothing was ever issued
C1_Witness ==
    /\ url = ""
    /\ toast = UrlToast
    /\ PendingDownloadCalls = {} /\ PendingFetchCalls = {}
    /\ RunningDownloads = {}
    /\ lastSettled = NotSettled /\ lastFetch = NoFetch

\* C2: the step that accepts a download submission sets progress to 0 and
\* empties the log, and leaves the handler waiting for its listener with
\* download_media not yet issued; until the command is issued progress stays
\* 0, and while the download runs the log holds no more entries than events
\* were delivered after the reset.
C2_ResetBeforeCommand ==
    /\ [][\A d \in HandlerIds :
            DownloadAccepted(d) =>
               /\ progress' = InitialProgress
               /\ logs' = << >>
               /\ downloads'[d].pc = "listening"]_vars
    /\ [](\A d \in HandlerIds :
            /\ downloads[d].pc = "listening" => progress = InitialProgress
            /\ downloads[d].pc # "none" => Len(logs) <= Len(delivered))

\* a second download, submitted after one that ended at 100, has been reset
\* and has received one log event since
C2_Witness ==
    /\ \E d \in HandlerIds : downloads[d].pc = "listening"
    /\ lastSettled.outcome = "ok"
    /\ progress = InitialProgress
    /\ Len(logs) = 1 /\ Len(delivered) = 1

\* C3: the step in which download_media resolves leaves progress at 100.
C3_SuccessForcesFullProgress ==
    [][\A d \in HandlerIds :
         (DownloadSettles(d) /\ lastSettled'.outcome = "ok")
            => progress' = FullProgress]_vars

\* a download succeeded after its last progress event said 40
C3_Witness ==
    /\ lastSettled.outcome = "ok"
    /\ ~isDownloading
    /\ lastSeen = <<40>>
    /\ progress = FullProgress

\* C4: the log is, entry by entry and in order, the payloads handed to the
\* download-log listener since the last accepted download submission (since
\* mount if there was none).
C4_LogsEqualDelivered ==
    logs = [i \in 1..Len(delivered) |->
              [type |-> delivered[i].message_type,
               message |-> delivered[i].message]]

\* two different events arrived, in this order, with no download in flight
\* after an earlier download had cleared the log
C4_Witness ==
    /\ Len(logs) = 2
    /\ logs[1].type = "stderr" /\ logs[2].type = "stdout"
    /\ RunningDownloads = {}
    /\ lastSettled.outcome # "none"

\* C5: the selector shows the two fallback options when no fetch has
\* returned or the last one returned an empty sequence, and otherwise the
\* options of the last returned sequence, in its order, and nothing else.
C5_SelectorShowsFallbackOrFetched ==
    QualityOptionsShown(availableQualities) =
       IF ~lastFetch.fetched \/ Len(lastFetch.list) = 0
       THEN <<[value |-> "best", label |-> "Best Available"],
              [value |-> "worst", label |-> "Lowest Available"]>>
       ELSE [i \in 1..Len(lastFetch.list) |->
               [value |-> lastFetch.list[i].id, label |-> lastFetch.list[i].label]]

\* a fetch returned two options and the selector shows exactly those
C5_Witness ==
    /\ lastFetch.fetched
    /\ lastFetch.list = <<Q137, Q140>>
    /\ Len(QualityOptionsShown(availableQualities)) = 2
    /\ QualityOptionsShown(availableQualities)[1].value = "137"

\* C6: the list shown is the static fallback, or it is the list returned by
\* the most recent fetch and that fetch was made for the url now in the url
\* field.  (The fallback is accepted in every state, so only a fetched list
\* shown against another url counts against the statement.)
C6_ListIsForCurrentUrl ==
    \/ QualityOptionsShown(availableQualities) = FallbackOptions
    \/ /\ lastFetch.fetched
       /\ lastFetch.url = url
       /\ QualityOptionsShown(availableQualities) = FetchedOptions(lastFetch.list)

\* C7: the step in which download_media rejects with e raises the error
\* notification 'Failed to start download: ' + String(e), leaves progress as
\* it was (the last value delivered during this download, 0 if none) and
\* sets isDownloading to false.
C7_FailureLeavesProgress ==
    [][\A d \in HandlerIds :
         (DownloadSettles(d) /\ lastSettled'.outcome = "err")
            => /\ toast' = [kind |-> "error",
                            text |-> <<"Failed to start download: ">>
                                        \o Stringify(lastSettled'.error)]
               /\ progress' = progress
               /\ progress' = IF lastSeen = << >> THEN InitialProgress
                              ELSE lastSeen[1]
               /\ isDownloading' = FALSE]_vars

\* a download was rejected with an Error object after a progress event of 40
C7_Witness ==
    /\ lastSettled.outcome = "err"
    /\ lastSettled.error.kind = "Error"
    /\ toast.kind = "error"
    /\ toast.text = <<"Failed to start download: ", "Error: ", "spawn failed">>
    /\ progress = 40
    /\ ~isDownloading

C9_ProgressListenerScoped ==
    /\ progressListeners = Cardinality(PendingDownloadCalls)
    /\ progressListeners <= 1
    /\ RunningDownloads = {} => progressListeners = 0

\* a download after a failed one: still exactly one listener
C9_Witness ==
    /\ lastSettled.outcome = "err"
    /\ PendingDownloadCalls # {}
    /\ progressListeners = 1

\* C10: once no registration is pending the number of download-log
\* listeners equals the number of mounted views; if mounts and teardowns
\* stop it stays so from some point on; and one step never adds more than
\* one entry to the log.
C10_LogListenerMatchesMount ==
    /\ []((tornPending = 0 /\ logEffect # "pending")
            => logListeners = MountedViews)
    /\ ([]<><<Mount \/ Teardown>>_vars \/ <>[](logListeners = MountedViews))
    /\ [][Len(logs') <= Len(logs) + 1]_vars

\* the effect was torn down before its registration completed and set up
\* again; the second registration is complete, the first still pending, and
\* one event has been delivered
C10_Witness ==
    /\ tornPending = 1
    /\ logEffect = "registered"
    /\ logListeners = 1
    /\ Len(logs) = 1

\* ---------------------------------------------------------------- C11
\* C11: at any time at most one invocation of handleDownload is running, so
\* at most one download_media call is pending, and at most one
\* get_video_info call is pending; a fetch and a download can be pending
\* together.
C11_OnePendingPerCommand ==
    /\ Cardinality(RunningDownloads) <= 1
    /\ Cardinality(PendingDownloadCalls) <= 1
    /\ Cardinality(PendingFetchCalls) <= 1

\* a get_video_info call and a download_media call pending together
C11_Witness ==
    /\ Cardinality(PendingDownloadCalls) = 1
    /\ Cardinality(PendingFetchCalls) = 1
    /\ isDownloading
    /\ isFetchingInfo

\* ---------------------------------------------------------------- C12
\* the form and handleDownload: every input of the form may be edited while
\* a download handler runs
NextFormView ==
    \/ Mount
    \/ \E u \in Urls : SetUrl(u)
    \/ \E f \in Formats : SetFormat(f)
    \/ \E q \in QualityValues : SetQuality(q)
    \/ OpenPicker
    \/ \E sel \in Directories \cup {Null} : PickerClosed(sel)
    \/ SubmitDownload
    \/ \E d \in HandlerIds : ProgressListenResolved(d)
    \/ \E d \in HandlerIds : DownloadResolved(d)
    \/ \E d \in HandlerIds, e \in Errors : DownloadRejected(d, e)

SpecForm == Init /\ [][NextFormView]_vars

\* C12: the request a download handler sends (and holds while
\* download_media is pending) has the url, format, quality and downloadPath
\* the form had when the download was submitted, downloadPath being null
\* when no directory had been chosen by then, whatever the form holds when
\* the command is issued.
C12_RequestIsFormAtSubmission ==
    \A d \in PendingDownloadCalls :
        /\ downloads[d].req = submitted
        /\ downloads[d].req.url # ""
        /\ downloads[d].req.format \in Formats
        /\ downloads[d].req.downloadPath \in Directories \cup {Null}

\* download_media is pending with the request of the submission, sent
\* without a downloadPath, and every input of the form has been edited since
C12_Witness ==
    \E d \in PendingDownloadCalls :
        /\ downloads[d].req = submitted
        /\ downloads[d].req.downloadPath = Null
        /\ downloads[d].req.format = "audio"
        /\ url # submitted.url
        /\ format # submitted.format
        /\ quality # submitted.quality
        /\ downloadPath # Null

\* ---------------------------------------------------------------- C13
\* both handlers and the quality selector
NextQualityView ==
    \/ Mount
    \/ \E u \in Urls : SetUrl(u)
    \/ \E q \in QualityValues : SetQuality(q)
    \/ SubmitDownload
    \/ \E d \in HandlerIds : ProgressListenResolved(d)
    \/ \E d \in HandlerIds : DownloadResolved(d)
    \/ \E d \in HandlerIds, e \in Errors : DownloadRejected(d, e)
    \/ SubmitFetch
    \/ \E f \in HandlerIds, list \in FetchResults : FetchResolved(f, list)
    \/ \E f \in HandlerIds, e \in Errors : FetchRejected(f, e)

SpecQuality == Init /\ [][NextQualityView]_vars

\* the ids of the quality list the application holds
HeldQualityIds == {availableQualities[i].id : i \in 1..Len(availableQualities)}

\* C13: the quality of the request built by an accepted download submission
\* is the id of an option of the quality list held at that moment, or one of
\* the sentinels best / worst.
C13_QualityIsHeldOrSentinel ==
    [][\A d \in HandlerIds :
          DownloadAccepted(d) =>
              downloads'[d].req.quality \in HeldQualityIds \cup {"best", "worst"}
      ]_vars

\* ---------------------------------------------------------------- C14
\* C14: while a handleDownload invocation is running, progress is the
\* progress field of the latest download-progress event handed to the
\* listener since the invocation reset it, and InitialProgress when there
\* was none; a lower or an equal value replaces the one before it.
C14_ProgressIsLatestEvent ==
    RunningDownloads # {} =>
        progress = IF lastSeen = << >> THEN InitialProgress ELSE lastSeen[1]

\* download_media is pending and an event of 40 came after one of 120
C14_Witness ==
    /\ PendingDownloadCalls # {}
    /\ isDownloading
    /\ lastSeen = <<40, 120>>
    /\ progress = 40

\* ---------------------------------------------------------------- C15
\* download handlers accepted whose invoke has not been called yet
AwaitingListen == {d \in HandlerIds : downloads[d].pc = "listening"}

\* C15: every accepted fetch submission has issued exactly one
\* get_video_info call, and every accepted download submission exactly one
\* download_media call once its listener is registered: the calls issued
\* never exceed the submissions accepted, and a rejected command is not
\* pending again until it is submitted again.
C15_OneCallPerSubmission ==
    /\ callBalance.fetch = 0
    /\ callBalance.download = Cardinality(AwaitingListen)
    /\ (lastSettled.outcome = "err" /\ ~isDownloading)
           => PendingDownloadCalls = {}
    /\ (fetchSettled = "err" /\ ~isFetchingInfo) => PendingFetchCalls = {}

\* both commands have failed and nothing is pending or awaited
C15_Witness ==
    /\ lastSettled.outcome = "err"
    /\ fetchSettled = "err"
    /\ RunningDownloads = {}
    /\ PendingFetchCalls = {}
    /\ callBalance = [download |-> 0, fetch |-> 0]
    /\ ~isDownloading
    /\ ~isFetchingInfo

\* ---------------------------------------------------------------- C16
\* a step in which the download-log listener is handed an event
LogDelivered == Len(delivered') > Len(delivered)

\* C16: a download-log event, of type stderr or stdout, appends its one
\* entry to the log and changes nothing else: progress, both in-flight
\* flags, the quality list, the form, the notification shown and the way the
\* last download_media call settled stay as they were.
C16_LogEventOnlyAppends ==
    [][LogDelivered =>
          /\ Len(logs') = Len(logs) + (Len(delivered') - Len(delivered))
          /\ \A i \in 1..Len(logs) : logs'[i] = logs[i]
          /\ \A i \in 1..(Len(logs') - Len(logs)) :
                logs'[Len(logs) + i] =
                    [type |-> delivered'[Len(delivered) + i].message_type,
                     message |-> delivered'[Len(delivered) + i].message]
          /\ UNCHANGED <<progress, isDownloading, isFetchingInfo,
                         availableQualities, formVars, toast, lastSettled,
                         downloads>>
      ]_vars

\* a stderr line arrived after download_media had returned successfully: the
\* outcome, the notification and progress are those of the success
C16_Witness ==
    /\ lastSettled.outcome = "ok"
    /\ Len(delivered) = 1
    /\ logs = <<[type |-> "stderr", message |-> "line"]>>
    /\ toast = [kind |-> "success", text |-> <<"Download started successfully!">>]
    /\ progress = FullProgress
    /\ ~isDownloading

\* ---------------------------------------------------------------- C17
\* every awaited promise of the two handlers settles
FairCommands ==
    /\ WF_vars(\E d \in HandlerIds : ProgressListenResolved(d))
    /\ WF_vars(\E d \in HandlerIds :
                  \/ DownloadResolved(d)
                  \/ \E e \in Errors : DownloadRejected(d, e))
    /\ WF_vars(\E f \in HandlerIds :
                  \/ \E list \in FetchResults : FetchResolved(f, list)
                  \/ \E e \in Errors : FetchRejected(f, e))

FairSpecCommands == SpecCommands /\ FairCommands

\* a step that accepts a fetch submission / in which get_video_info settles
FetchAccepted(f) == fetches[f].pc = "none" /\ fetches'[f].pc = "invoked"
FetchSettles(f) == fetches[f].pc = "invoked" /\ fetches'[f].pc # "invoked"

\* C17: isFetchingInfo is true exactly while a get_video_info call is
\* pending: the accepted submission sets it, the settlement of the call, with
\* a result or with an error, clears it, and every call settles.
C17_FetchingReturnsToIdle ==
    /\ [](isFetchingInfo <=> PendingFetchCalls # {})
    /\ [][\A f \in HandlerIds :
             /\ FetchAccepted(f) => isFetchingInfo'
             /\ FetchSettles(f) => ~isFetchingInfo']_vars
    /\ (isFetchingInfo ~> ~isFetchingInfo)

\* the user re-submitted a fetch after a failed one
C17_Witness ==
    /\ fetchSettled = "err"
    /\ isFetchingInfo
    /\ PendingFetchCalls # {}
    /\ toast.kind = "error"

\* ---------------------------------------------------------------- C18
\* ------------------------------------------- the setup script (part_000)
ExitNoWinget == 1     \* exit 1 when winget is not found

\* the tools in the order the script handles them
ToolOrder == <<"cargo", "node", "bun", "ffmpeg">>
Tools == {ToolOrder[i] : i \in 1..Len(ToolOrder)}
Commands == Tools \cup {"winget"}

\* Test-CommandExists
TestCommandExists(present, command) == command \in present

\* if (-not (Test-CommandExists tool)) { winget install ... }
ShouldInstall(present, tool) == ~TestCommandExists(present, tool)

\* where the script goes after the block of tool number i
StepAfterTool(i) ==
    IF i < Len(ToolOrder) THEN [step |-> "check", tool |-> i + 1]
    ELSE [step |-> "restart", tool |-> 0]

\* after winget install and Update-Path: a message either way, then the next
\* block (faulty variant: a tool still absent ends the script with code 1)
AbortWhenStillAbsent(i, stillAbsent) ==
    IF stillAbsent THEN [step |-> "exited", tool |-> i] ELSE StepAfterTool(i)
StepAfterInstall(i, stillAbsent) == StepAfterTool(i)

\* the operator runs the script in a session that resolves the commands env
RunSetup(env) ==
    /\ script.step = "idle"
    /\ script' = [script EXCEPT !.step = "winget", !.present = env,
                                !.startedWith = env]
    /\ UNCHANGED <<formVars, nonFormVars, pickerOpen, callHist, chromeVars>>

\* [1/5]: exit 1 when winget is not found
CheckWinget ==
    /\ script.step = "winget"
    /\ script' =
         IF ~TestCommandExists(script.present, "winget")
         THEN [script EXCEPT !.step = "exited", !.exit = <<ExitNoWinget>>]
         ELSE [script EXCEPT !.step = "check", !.tool = 1]
    /\ UNCHANGED <<formVars, nonFormVars, pickerOpen, callHist, chromeVars>>

\* [2/5]..[5/5]: the test of one tool's command
CheckTool(i) ==
    /\ script.step = "check"
    /\ script.tool = i
    /\ script' =
         [script EXCEPT
            !.absentAtCheck =
                IF ToolOrder[i] \in script.present THEN @ ELSE @ \cup {ToolOrder[i]},
            !.attempted =
                IF ShouldInstall(script.present, ToolOrder[i])
                THEN @ \cup {ToolOrder[i]} ELSE @,
            !.step =
                IF ShouldInstall(script.present, ToolOrder[i])
                THEN "install" ELSE StepAfterTool(i).step,
            !.tool =
                IF ShouldInstall(script.present, ToolOrder[i])
                THEN i ELSE StepAfterTool(i).tool]
    /\ UNCHANGED <<formVars, nonFormVars, pickerOpen, callHist, chromeVars>>

\* winget install returns and Update-Path replaces the session's PATH by the
\* machine's and the user's: the tool may or may not resolve now, and any
\* other tool may appear or vanish
InstallReturned(i, now) ==
    /\ script.step = "install"
    /\ script.tool = i
    /\ script' =
         [script EXCEPT
            !.present = now \cup {"winget"},
            !.step = StepAfterInstall(i, ToolOrder[i] \notin now).step,
            !.tool = StepAfterInstall(i, ToolOrder[i] \notin now).tool,
            !.exit = IF StepAfterInstall(i, ToolOrder[i] \notin now).step = "exited"
                     THEN <<ExitNoWinget>> ELSE @]
    /\ UNCHANGED <<formVars, nonFormVars, pickerOpen, callHist, chromeVars>>

\* "Installation Complete!", Start-Process powershell, exit
Restart ==
    /\ script.step = "restart"
    /\ script' = [script EXCEPT !.step = "exited", !.restarted = TRUE]
    /\ UNCHANGED <<formVars, nonFormVars, pickerOpen, callHist, chromeVars>>

NextSetup ==
    \/ \E env \in SUBSET Commands : RunSetup(env)
    \/ CheckWinget
    \/ \E i \in 1..Len(ToolOrder) : CheckTool(i)
    \/ \E i \in 1..Len(ToolOrder), now \in SUBSET Tools : InstallReturned(i, now)
    \/ Restart

SpecSetup == Init /\ [][NextSetup]_vars

\* every command of the script returns
FairSpecSetup == SpecSetup /\ WF_vars(CheckWinget \/ Restart
                     \/ (\E i \in 1..Len(ToolOrder) : CheckTool(i))
                     \/ (\E i \in 1..Len(ToolOrder), now \in SUBSET Tools :
                            InstallReturned(i, now)))

\* the tools whose block the script has gone through
ToolsHandled ==
    CASE script.step \in {"idle", "winget"} -> {}
      [] script.step = "check" -> {ToolOrder[j] : j \in 1..(script.tool - 1)}
      [] script.step = "install" -> {ToolOrder[j] : j \in 1..script.tool}
      [] script.step = "restart" -> Tools
      [] OTHER -> IF script.restarted THEN Tools ELSE {}

\* the script has been started
SetupStarted == script.step # "idle"

\* C18: started without winget the script exits with code 1 and has
\* attempted no installation; started with winget it attempts the
\* installation of a tool exactly when the tool's command is absent at its
\* check, never exits with a code, whatever an installation leaves behind,
\* and always reaches the restart step.
C18_SetupScript ==
    /\ []((SetupStarted /\ "winget" \notin script.startedWith) =>
             /\ script.attempted = {}
             /\ ~script.restarted
             /\ script.step \in {"winget", "exited"}
             /\ script.step = "exited" => script.exit = <<ExitNoWinget>>)
    /\ []((SetupStarted /\ "winget" \in script.startedWith) =>
             /\ script.exit = << >>
             /\ script.attempted = script.absentAtCheck
             /\ script.absentAtCheck \subseteq ToolsHandled \cup
                    (IF script.step = "install" THEN {ToolOrder[script.tool]} ELSE {})
             /\ script.restarted => script.step = "exited")
    /\ (script.step = "winget" /\ "winget" \notin script.startedWith)
            ~> (script.step = "exited" /\ script.exit = <<ExitNoWinget>>)
    /\ (script.step = "winget" /\ "winget" \in script.startedWith)
            ~> script.restarted

\* the script restarted the terminal although bun, whose installation it
\* attempted, still does not resolve, and without attempting node, which did
C18_Witness ==
    /\ script.restarted
    /\ script.step = "exited"
    /\ "node" \in script.startedWith
    /\ "bun" \in script.attempted
    /\ "bun" \notin script.present
    /\ "node" \notin script.attempted
    /\ "cargo" \in script.attempted

\* ---------------------------------------------------------------- C19
\* C19: when get_video_info rejects, the quality list, the options the
\* selector shows and the selected quality are what they were before; when
\* it resolves, the list becomes exactly the sequence returned, with nothing
\* of the previous list kept.
C19_OnlySuccessReplacesList ==
    [][\A f \in HandlerIds :
          FetchSettles(f) =>
              /\ fetchSettled' = "err" =>
                    /\ availableQualities' = availableQualities
                    /\ QualityOptionsShown(availableQualities') =
                           QualityOptionsShown(availableQualities)
                    /\ quality' = quality
              /\ fetchSettled' = "ok" =>
                    /\ availableQualities' = lastFetch'.list
                    /\ quality' = quality
      ]_vars

\* a fetch failed after an earlier one had returned two options, the first of
\* them selected: the list and the selection are still there
C19_Witness ==
    /\ fetchSettled = "err"
    /\ ~isFetchingInfo
    /\ toast.kind = "error"
    /\ availableQualities = <<Q137, Q140>>
    /\ quality = Q137.id

\* ---------------------------------------------------------------- C20
\* C20: from the settlement of a download handler to the next accepted
\* download submission no download-progress listener of the view is
\* registered and progress does not change: it stays FullProgress after a
\* success, and after a failure the value of the last event the handler saw
\* (InitialProgress if it saw none), whatever the relay emits meanwhile.
C20_ProgressFrozenAfterSettle ==
    /\ [][(RunningDownloads = {} /\ RunningDownloads' = {})
              => (progress' = progress /\ lastSeen' = lastSeen)]_vars
    /\ [](RunningDownloads = {} =>
             /\ progressListeners = 0
             /\ lastSettled.outcome = "ok" => progress = FullProgress
             /\ lastSettled.outcome = "err" =>
                    progress = IF lastSeen = << >> THEN InitialProgress
                               ELSE lastSeen[1])

\* no handler runs after a success whose last two events said 40 and then
\* 120, and log events have been handled since: progress is still 100
C20_Witness ==
    /\ RunningDownloads = {}
    /\ lastSettled.outcome = "ok"
    /\ lastSeen = <<120, 40>>
    /\ progress = FullProgress
    /\ progressListeners = 0
    /\ Len(delivered) = 2

\* ---------------------------------------------------------------- C21
\* ------------------------------------ TitleBar (components/TitleBar.tsx)
MaxWindowCalls == 2   \* calls to the window that may be pending at a time

\* the calls to the window that have not completed
WindowCallsPending ==
    titleBar.checksAsked + titleBar.checksRead[TRUE] + titleBar.checksRead[FALSE]
    + titleBar.togglesAsked + titleBar.togglesRead[TRUE]
    + titleBar.togglesRead[FALSE]
    + titleBar.commands[TRUE] + titleBar.commands[FALSE]

\* the window emits tauri://resize when its maximized state changes: a
\* registered listener calls checkMaximized, which asks win.isMaximized()
ChecksAfterResize(tb, changed) ==
    IF changed /\ tb.listen = "registered" THEN tb.checksAsked + 1
    ELSE tb.checksAsked

\* useEffect: checkMaximized() is called, then listen("tauri://resize", ...)
MountTitleBar ==
    /\ titleBar.listen = "none"
    /\ titleBar' = [titleBar EXCEPT !.listen = "pending",
                                    !.checksAsked = @ + 1]
    /\ UNCHANGED <<formVars, nonFormVars, pickerOpen, callHist, setupVars>>

\* listen() resolves: the listener is registered
ResizeListenResolved ==
    /\ titleBar.listen = "pending"
    /\ titleBar' = [titleBar EXCEPT !.listen = "registered"]
    /\ UNCHANGED <<formVars, nonFormVars, pickerOpen, callHist, setupVars>>

\* the user maximizes or restores the window by means of the system
WindowChangedByUser ==
    /\ titleBar.listen # "none"
    /\ WindowCallsPending < MaxWindowCalls
    /\ titleBar' = [titleBar EXCEPT !.window = ~@,
                                    !.checksAsked = ChecksAfterResize(titleBar, TRUE)]
    /\ UNCHANGED <<formVars, nonFormVars, pickerOpen, callHist, setupVars>>

\* the window reads its state for one isMaximized() query of checkMaximized
CheckRead ==
    /\ titleBar.checksAsked > 0
    /\ titleBar' = [titleBar EXCEPT !.checksAsked = @ - 1,
                                    !.checksRead[titleBar.window] = @ + 1]
    /\ UNCHANGED <<formVars, nonFormVars, pickerOpen, callHist, setupVars>>

\* setIsMaximized(await win.isMaximized()): one answered query resolves
CheckResolved(v) ==
    /\ titleBar.checksRead[v] > 0
    /\ titleBar' = [titleBar EXCEPT !.checksRead[v] = @ - 1,
                                    !.isMaximized = v]
    /\ UNCHANGED <<formVars, nonFormVars, pickerOpen, callHist, setupVars>>

\* toggleMaximize up to its await: win.isMaximized() is asked
ToggleClicked ==
    /\ titleBar.listen # "none"
    /\ WindowCallsPending < MaxWindowCalls
    /\ titleBar' = [titleBar EXCEPT !.togglesAsked = @ + 1]
    /\ UNCHANGED <<formVars, nonFormVars, pickerOpen, callHist, setupVars>>

\* the window reads its state for one isMaximized() query of toggleMaximize
ToggleRead ==
    /\ titleBar.togglesAsked > 0
    /\ titleBar' = [titleBar EXCEPT !.togglesAsked = @ - 1,
                                    !.togglesRead[titleBar.window] = @ + 1]
    /\ UNCHANGED <<formVars, nonFormVars, pickerOpen, callHist, setupVars>>

\* toggleMaximize after its await: win.unmaximize() or win.maximize() is
\* called and not awaited, then setIsMaximized(!maximized)
ToggleResumed(maximized) ==
    /\ titleBar.togglesRead[maximized] > 0
    /\ titleBar' = [titleBar EXCEPT !.togglesRead[maximized] = @ - 1,
                                    !.commands[~maximized] = @ + 1,
                                    !.isMaximized = ~maximized]
    /\ UNCHANGED <<formVars, nonFormVars, pickerOpen, callHist, setupVars>>

\* the window carries out one maximize() (target TRUE) or unmaximize()
WindowCommandDone(target) ==
    /\ titleBar.commands[target] > 0
    /\ titleBar' =
         [titleBar EXCEPT
            !.commands[target] = @ - 1,
            !.window = target,
            !.checksAsked = ChecksAfterResize(titleBar, titleBar.window # target)]
    /\ UNCHANGED <<formVars, nonFormVars, pickerOpen, callHist, setupVars>>

NextTitleBar ==
    \/ MountTitleBar
    \/ ResizeListenResolved
    \/ WindowChangedByUser
    \/ CheckRead
    \/ \E v \in BOOLEAN : CheckResolved(v)
    \/ ToggleClicked
    \/ ToggleRead
    \/ \E v \in BOOLEAN : ToggleResumed(v)
    \/ \E target \in BOOLEAN : WindowCommandDone(target)

SpecTitleBar == Init /\ [][NextTitleBar]_vars

\* the effect has run, the listener is registered and every call to the
\* window has completed
TitleBarQuiet ==
    /\ titleBar.listen = "registered"
    /\ WindowCallsPending = 0

\* C21: whenever the resize listener is registered and no toggleMaximize,
\* checkMaximized or window command is pending, isMaximized is the window's
\* maximized state.
C21_FlagMatchesWindowWhenQuiet ==
    TitleBarQuiet => titleBar.isMaximized = titleBar.window

=============================================================================
